---- MODULE Spec2Model ----
(***************************************************************************)
(* A model of the css-builder library: the low-level node constructors of  *)
(* create.ts, the value parser and the expression normalizer of builder.ts *)
(* and the stack-based serializer of serialize.ts.                         *)
(*                                                                         *)
(* Strings are sequences of one-character strings, so that the numeric     *)
(* prefix scan of value() and the concatenation of serialize() are         *)
(* computed character by character.  Every JavaScript value the library    *)
(* handles (node, array, null, undefined, number, string) is a tuple of    *)
(* the same five components; its tag tells them apart.                     *)
(***************************************************************************)
EXTENDS Integers, Sequences, FiniteSets

VARIABLES reg, fn, args, result, error, stack, output, pops, heap, composed

vars == <<reg, fn, args, result, error, stack, output, pops, heap, composed>>

(***************************************************************************)
(* Bounds of the model.                                                    *)
(***************************************************************************)
\* longest argument list of a variadic builder call
MaxItems == 2
\* most trailing (operator, operand) pairs of a constructed sum or product
MaxPairs == 2
\* most calc( ) wrappers put around the operand register
MaxWrap == 1
\* longest string handed to value()
MaxStrLen == 4
\* most values (nodes, arrays and nulls) of a tree handed to serialize()
MaxTreeSize == 5

(***************************************************************************)
(* JavaScript values.                                                      *)
(***************************************************************************)
\* Every value is the tuple <<tag, kind, string, children, number>>.
Tag(v) == v[1]
Kind(v) == v[2]
StrOf(v) == v[3]
Kids(v) == v[4]
NumOf(v) == v[5]

\* an AST node whose value is a string token
Tok(kind, s) == <<"leaf", kind, s, <<>>, 0>>
\* an AST node whose value is an array
Node(kind, kids) == <<"node", kind, <<>>, kids, 0>>
\* a bare array inside a node value
Arr(kids) == <<"array", "", <<>>, kids, 0>>
Null == <<"null", "", <<>>, <<>>, 0>>
Undefined == <<"undefined", "", <<>>, <<>>, 0>>
Num(n) == <<"number", "", <<>>, <<>>, n>>
Str(s) == <<"string", "", s, <<>>, 0>>

IsNode(v) == Tag(v) \in {"leaf", "node"}
IsScalar(v) == Tag(v) \in {"number", "string"}
\* !item
Falsy(v) ==
  \/ Tag(v) \in {"null", "undefined"}
  \/ Tag(v) = "number" /\ NumOf(v) = 0
  \/ Tag(v) = "string" /\ StrOf(v) = <<>>
\* value == null
Nullish(v) == Tag(v) \in {"null", "undefined"}

Digit == <<"0", "1", "2", "3", "4", "5", "6", "7", "8", "9">>

RECURSIVE NatToString(_)
NatToString(n) ==
  IF n < 10 THEN <<Digit[n + 1]>>
  ELSE NatToString(n \div 10) \o <<Digit[(n % 10) + 1]>>

\* Number.prototype.toString of an integer
NumToString(n) == IF n < 0 THEN <<"-">> \o NatToString(0 - n) ELSE NatToString(n)

\* value.toString() of a number | string
toString(v) == IF Tag(v) = "number" THEN NumToString(NumOf(v)) ELSE StrOf(v)

(***************************************************************************)
(* serialize.ts                                                            *)
(***************************************************************************)
\* a push loop that runs upwards and leaves the children in reverse on the stack
PushReversed_Forward(stk, arr, i) == stk \o SubSeq(arr, 1, i)

\* a push loop that starts one index too low and leaves the last child out
RECURSIVE PushReversed_SkipLast(_, _, _)
PushReversed_SkipLast(stk, arr, i) ==
  IF i < 2 THEN stk ELSE PushReversed_SkipLast(Append(stk, arr[i - 1]), arr, i - 1)

\* pushes current[length-1] .. current[0], so that current[0] is on top
RECURSIVE PushReversed(_, _, _)
PushReversed(stk, arr, i) ==
  IF i < 1 THEN stk ELSE PushReversed(Append(stk, arr[i]), arr, i - 1)

\* an iteration that puts a token in front of the output instead of behind it
SerializeIteration_Prepend(stk, out) ==
  LET current == stk[Len(stk)]
      popped == SubSeq(stk, 1, Len(stk) - 1)
  IN IF Tag(current) \in {"null", "undefined"} THEN <<popped, out>>
     ELSE IF Tag(current) = "array"
       THEN <<PushReversed(popped, Kids(current), Len(Kids(current))), out>>
     ELSE IF Tag(current) = "leaf" THEN <<popped, StrOf(current) \o out>>
     ELSE <<PushReversed(popped, Kids(current), Len(Kids(current))), out>>

\* one iteration of the while loop, from the stack and output before it to
\* the pair of them after it; the top of the stack is its last element
SerializeIteration(stk, out) ==
  LET current == stk[Len(stk)]
      popped == SubSeq(stk, 1, Len(stk) - 1)
  IN IF Tag(current) \in {"null", "undefined"} THEN <<popped, out>>
     ELSE IF Tag(current) = "array"
       THEN <<PushReversed(popped, Kids(current), Len(Kids(current))), out>>
     ELSE IF Tag(current) = "leaf" THEN <<popped, out \o StrOf(current)>>
     ELSE <<PushReversed(popped, Kids(current), Len(Kids(current))), out>>

\* the while loop
RECURSIVE SerializeLoop(_, _)
SerializeLoop(stk, out) ==
  IF Len(stk) = 0 THEN out
  ELSE LET after == SerializeIteration(stk, out)
       IN SerializeLoop(after[1], after[2])

serialize(node) == SerializeLoop(<<node>>, <<>>)

(***************************************************************************)
(* create.ts                                                               *)
(***************************************************************************)
Comma == Tok("token", <<",">>)
LParen == Tok("token", <<"(">>)
RParen == Tok("token", <<")">>)

CommaList(items) ==
  Arr(<<items[1]>> \o [i \in 1..(Len(items) - 1) |-> Arr(<<Comma, items[i + 1]>>)])

create_min(items) ==
  Node("min", <<Tok("function", <<"m", "i", "n">>), LParen, CommaList(items), RParen>>)

create_max(items) ==
  Node("max", <<Tok("function", <<"m", "a", "x">>), LParen, CommaList(items), RParen>>)

create_clamp(minArg, preferred, maxArg) ==
  Node("clamp",
       <<Tok("function", <<"c", "l", "a", "m", "p">>),
         LParen, minArg, Comma, preferred, Comma, maxArg, RParen>>)

create_exp(sum) ==
  Node("exp", <<Tok("function", <<"e", "x", "p">>), LParen, sum, RParen>>)

create_pow(base, exponent) ==
  Node("pow", <<Tok("function", <<"p", "o", "w">>), LParen, base, Comma, exponent, RParen>>)

create_calc(sum) ==
  Node("calc", <<Tok("function", <<"c", "a", "l", "c">>), LParen, sum, RParen>>)

create_round(strategy, val, interval) ==
  Node("round",
       <<Tok("function", <<"r", "o", "u", "n", "d">>),
         LParen,
         IF ~Falsy(strategy)
           THEN Arr(<<Tok("rounding-strategy", StrOf(strategy)), Comma>>)
           ELSE Null,
         val,
         IF ~Falsy(interval) THEN Arr(<<Comma, interval>>) ELSE Null,
         RParen>>)

\* a clacSum without the early return for an empty products list
clacSum_NoCollapse(first, products) ==
  Node("calc-sum",
       <<first,
         Arr([i \in 1..Len(products) |->
                Arr(<<Tok("token", <<" ">> \o products[i][1] \o <<" ">>),
                      products[i][2]>>)])>>)

\* a clacSum that stores the bare operator, without the spaces around it
clacSum_NoSpaces(first, products) ==
  IF Len(products) = 0 THEN first
  ELSE Node("calc-sum",
            <<first,
              Arr([i \in 1..Len(products) |->
                     Arr(<<Tok("token", products[i][1]), products[i][2]>>)])>>)

\* products is a sequence of <<op, node>> pairs, op one of <<"+">>, <<"-">>
clacSum(first, products) ==
  IF Len(products) = 0 THEN first
  ELSE Node("calc-sum",
            <<first,
              Arr([i \in 1..Len(products) |->
                     Arr(<<Tok("token", <<" ">> \o products[i][1] \o <<" ">>),
                           products[i][2]>>)])>>)

\* values is a sequence of <<op, node>> pairs, op one of <<"*">>, <<"/">>
calcProduct(first, values) ==
  IF Len(values) = 0 THEN first
  ELSE Node("calc-product",
            <<first,
              Arr([i \in 1..Len(values) |->
                     Arr(<<Tok("token", values[i][1]), values[i][2]>>)])>>)

calcValue_number(v) == Tok("number", toString(v))

calcValue_dimension(v, unit) ==
  Node("dimension", <<Tok("dimension-number", toString(v)), Tok("dimension-unit", unit)>>)

calcValue_percentage(v) ==
  Node("percentage", <<Tok("percentage-number", toString(v)), Tok("token", <<"%">>)>>)

calcValue_raw(s) == Tok("raw", s)

calcValue_group(sum) == Node("group", <<LParen, sum, RParen>>)

(***************************************************************************)
(* builder.ts: value()                                                     *)
(***************************************************************************)
IsDigit(c) == c \in {"0", "1", "2", "3", "4", "5", "6", "7", "8", "9"}

\* \d* from index i, greedy: the index after the run of digits
RECURSIVE DigitsEnd(_, _)
DigitsEnd(s, i) ==
  IF i <= Len(s) /\ IsDigit(s[i]) THEN DigitsEnd(s, i + 1) ELSE i

\* a mantissa whose fraction may be empty, \d*\.\d* in place of \d*\.\d+
MantissaEnd_LooseFraction(s, i) ==
  LET d == DigitsEnd(s, i)
  IN IF d > i THEN d
     ELSE IF d <= Len(s) /\ s[d] = "." THEN DigitsEnd(s, d + 1)
     ELSE 0

\* (?:\d+|\d*\.\d+) at index i: the index after the mantissa, 0 when neither
\* alternative matches.  The alternatives are ordered: once \d+ has matched,
\* the rest of the pattern (an optional group, no end anchor) cannot fail, so
\* the second alternative is tried only when no digit stands at i.
MantissaEnd(s, i) ==
  LET d == DigitsEnd(s, i)
  IN IF d > i THEN d
     ELSE IF d <= Len(s) /\ s[d] = "." /\ DigitsEnd(s, d + 1) > d + 1
       THEN DigitsEnd(s, d + 1)
     ELSE 0

\* (?:[eE][+-]?\d+)? at index j: the index after the exponent, j when absent
ExponentEnd(s, j) ==
  IF j <= Len(s) /\ s[j] \in {"e", "E"}
    THEN LET k == IF j + 1 <= Len(s) /\ s[j + 1] \in {"+", "-"} THEN j + 2 ELSE j + 1
         IN IF DigitsEnd(s, k) > k THEN DigitsEnd(s, k) ELSE j
    ELSE j

\* value.match(/^[+-]?(?:\d+|\d*\.\d+)(?:[eE][+-]?\d+)?/): the length of
\* match[0], 0 when there is no match (a match is never empty)
MatchLen(s) ==
  LET i == IF Len(s) >= 1 /\ s[1] \in {"+", "-"} THEN 2 ELSE 1
      m == MantissaEnd(s, i)
  IN IF m = 0 THEN 0 ELSE ExponentEnd(s, m) - 1

\* a value( ) that hands the whole string, not the number part, to percentage
value_WholePercentage(v) ==
  IF Tag(v) = "number" THEN calcValue_number(v)
  ELSE LET n == MatchLen(StrOf(v))
           numberPart == SubSeq(StrOf(v), 1, n)
           unit == SubSeq(StrOf(v), n + 1, Len(StrOf(v)))
       IN IF n = 0 THEN calcValue_raw(StrOf(v))
          ELSE IF unit = <<>> THEN calcValue_number(Str(numberPart))
          ELSE IF unit = <<"%">> THEN calcValue_percentage(v)
          ELSE calcValue_dimension(Str(numberPart), unit)

value(v) ==
  IF Tag(v) = "number" THEN calcValue_number(v)
  ELSE LET n == MatchLen(StrOf(v))
           numberPart == SubSeq(StrOf(v), 1, n)
           unit == SubSeq(StrOf(v), n + 1, Len(StrOf(v)))
       IN IF n = 0 THEN calcValue_raw(StrOf(v))
          ELSE IF unit = <<>> THEN calcValue_number(Str(numberPart))
          ELSE IF unit = <<"%">> THEN calcValue_percentage(Str(numberPart))
          ELSE calcValue_dimension(Str(numberPart), unit)

(***************************************************************************)
(* builder.ts: the expression normalizer                                   *)
(***************************************************************************)
\* what a call produces: a returned node, or a thrown Error with a message
Returned(node) == <<TRUE, node, "">>
Thrown(msg) == <<FALSE, Null, msg>>
Ok(outcome) == outcome[1]
Ret(outcome) == outcome[2]
Err(outcome) == outcome[3]

\* the [operator, operand] entries pushed on resolvedItems
Pair(op, node) == <<op, node>>

\* const [first, rest] = item.value, rest as [operator token, operand] pairs
RestOf(item) == Kids(Kids(item)[2])

\* op.value === " + " ? "+" : "-"
NextOp(tok) == IF StrOf(tok) = <<" ", "+", " ">> THEN <<"+">> ELSE <<"-">>

\* a merge that never flips the inner sign
MergedOp_NoFlip(outerOp, isFirst, nextOp) == nextOp

\* a merge that forgets the isFirst test
MergedOp_FlipFirst(outerOp, isFirst, nextOp) ==
  IF outerOp = <<"-">>
    THEN (IF nextOp = <<"+">> THEN <<"-">> ELSE <<"+">>)
    ELSE nextOp

\* outerOp === "-" && !isFirst ? (nextOp === "+" ? "-" : "+") : nextOp
MergedOp(outerOp, isFirst, nextOp) ==
  IF outerOp = <<"-">> /\ ~isFirst
    THEN (IF nextOp = <<"+">> THEN <<"-">> ELSE <<"+">>)
    ELSE nextOp

\* a handleItem that puts a group around every node it passes through
RECURSIVE SumHandleItem_GroupOther(_, _, _)
SumHandleItem_GroupOther(op, resolvedItems, item) ==
  IF Falsy(item) THEN resolvedItems
  ELSE IF IsScalar(item) THEN Append(resolvedItems, Pair(op, value(item)))
  ELSE IF Kind(item) = "calc-sum"
    THEN LET isFirst == Len(resolvedItems) = 0
             rest == RestOf(item)
         IN Append(resolvedItems, Pair(op, Kids(item)[1])) \o
            [i \in 1..Len(rest) |->
               Pair(MergedOp(op, isFirst, NextOp(Kids(rest[i])[1])), Kids(rest[i])[2])]
  ELSE IF Kind(item) = "calc"
    THEN SumHandleItem_GroupOther(op, resolvedItems, Kids(item)[3])
  ELSE Append(resolvedItems, Pair(op, calcValue_group(item)))

\* a handleItem without the calc branch: a calc operand is appended as it is
SumHandleItem_NoUnwrap(op, resolvedItems, item) ==
  IF Falsy(item) THEN resolvedItems
  ELSE IF IsScalar(item) THEN Append(resolvedItems, Pair(op, value(item)))
  ELSE IF Kind(item) = "calc-sum"
    THEN LET isFirst == Len(resolvedItems) = 0
             rest == RestOf(item)
         IN Append(resolvedItems, Pair(op, Kids(item)[1])) \o
            [i \in 1..Len(rest) |->
               Pair(MergedOp(op, isFirst, NextOp(Kids(rest[i])[1])), Kids(rest[i])[2])]
  ELSE Append(resolvedItems, Pair(op, item))

\* handleItem of addOrSubstract: resolvedItems after the item is handled
RECURSIVE SumHandleItem(_, _, _)
SumHandleItem(op, resolvedItems, item) ==
  IF Falsy(item) THEN resolvedItems
  ELSE IF IsScalar(item) THEN Append(resolvedItems, Pair(op, value(item)))
  ELSE IF Kind(item) = "calc-sum"
    THEN LET isFirst == Len(resolvedItems) = 0
             rest == RestOf(item)
         IN Append(resolvedItems, Pair(op, Kids(item)[1])) \o
            [i \in 1..Len(rest) |->
               Pair(MergedOp(op, isFirst, NextOp(Kids(rest[i])[1])), Kids(rest[i])[2])]
  ELSE IF Kind(item) = "calc" THEN SumHandleItem(op, resolvedItems, Kids(item)[3])
  ELSE Append(resolvedItems, Pair(op, item))

\* a loop that handles the items from the last to the first
RECURSIVE SumResolve_Backwards(_, _, _, _)
SumResolve_Backwards(op, resolvedItems, items, i) ==
  IF i > Len(items) THEN resolvedItems
  ELSE SumResolve_Backwards(op, SumHandleItem(op, resolvedItems, items[Len(items) + 1 - i]),
                            items, i + 1)

\* for (const item of items) handleItem(item)
RECURSIVE SumResolve(_, _, _, _)
SumResolve(op, resolvedItems, items, i) ==
  IF i > Len(items) THEN resolvedItems
  ELSE SumResolve(op, SumHandleItem(op, resolvedItems, items[i]), items, i + 1)

addOrSubstract(op, items) ==
  LET resolvedItems == SumResolve(op, <<>>, items, 1)
  IN IF Len(resolvedItems) = 0 THEN Thrown("Expected at least one item.")
     ELSE Returned(create_calc(clacSum(resolvedItems[1][2], Tail(resolvedItems))))

add(items) == addOrSubstract(<<"+">>, items)

substract(items) == addOrSubstract(<<"-">>, items)

\* handleItem of multiplyOrDivide without the merge: a calc-product operand
\* is appended as one value
RECURSIVE ProductHandleItem_NoMerge(_, _, _)
ProductHandleItem_NoMerge(op, resolvedItems, item) ==
  IF Falsy(item) THEN resolvedItems
  ELSE IF IsScalar(item) THEN Append(resolvedItems, Pair(op, value(item)))
  ELSE IF Kind(item) = "calc-sum"
    THEN Append(resolvedItems, Pair(op, calcValue_group(item)))
  ELSE IF Kind(item) = "calc"
    THEN ProductHandleItem_NoMerge(op, resolvedItems, Kids(item)[3])
  ELSE Append(resolvedItems, Pair(op, item))

\* handleItem of multiplyOrDivide without the group around a calc-sum
RECURSIVE ProductHandleItem_NoGroup(_, _, _)
ProductHandleItem_NoGroup(op, resolvedItems, item) ==
  IF Falsy(item) THEN resolvedItems
  ELSE IF IsScalar(item) THEN Append(resolvedItems, Pair(op, value(item)))
  ELSE IF Kind(item) = "calc-product"
    THEN LET rest == RestOf(item)
         IN Append(resolvedItems, Pair(op, Kids(item)[1])) \o
            [i \in 1..Len(rest) |-> Pair(StrOf(Kids(rest[i])[1]), Kids(rest[i])[2])]
  ELSE IF Kind(item) = "calc"
    THEN ProductHandleItem_NoGroup(op, resolvedItems, Kids(item)[3])
  ELSE Append(resolvedItems, Pair(op, item))

\* handleItem of multiplyOrDivide giving the outer operator to every merged pair
RECURSIVE ProductHandleItem_OuterOp(_, _, _)
ProductHandleItem_OuterOp(op, resolvedItems, item) ==
  IF Falsy(item) THEN resolvedItems
  ELSE IF IsScalar(item) THEN Append(resolvedItems, Pair(op, value(item)))
  ELSE IF Kind(item) = "calc-product"
    THEN LET rest == RestOf(item)
         IN Append(resolvedItems, Pair(op, Kids(item)[1])) \o
            [i \in 1..Len(rest) |-> Pair(op, Kids(rest[i])[2])]
  ELSE IF Kind(item) = "calc-sum"
    THEN Append(resolvedItems, Pair(op, calcValue_group(item)))
  ELSE IF Kind(item) = "calc"
    THEN ProductHandleItem_OuterOp(op, resolvedItems, Kids(item)[3])
  ELSE Append(resolvedItems, Pair(op, item))

\* handleItem of multiplyOrDivide
RECURSIVE ProductHandleItem(_, _, _)
ProductHandleItem(op, resolvedItems, item) ==
  IF Falsy(item) THEN resolvedItems
  ELSE IF IsScalar(item) THEN Append(resolvedItems, Pair(op, value(item)))
  ELSE IF Kind(item) = "calc-product"
    THEN LET rest == RestOf(item)
         IN Append(resolvedItems, Pair(op, Kids(item)[1])) \o
            [i \in 1..Len(rest) |-> Pair(StrOf(Kids(rest[i])[1]), Kids(rest[i])[2])]
  ELSE IF Kind(item) = "calc-sum"
    THEN Append(resolvedItems, Pair(op, calcValue_group(item)))
  ELSE IF Kind(item) = "calc" THEN ProductHandleItem(op, resolvedItems, Kids(item)[3])
  ELSE Append(resolvedItems, Pair(op, item))

RECURSIVE ProductResolve(_, _, _, _)
ProductResolve(op, resolvedItems, items, i) ==
  IF i > Len(items) THEN resolvedItems
  ELSE ProductResolve(op, ProductHandleItem(op, resolvedItems, items[i]), items, i + 1)

multiplyOrDivide(op, items) ==
  LET resolvedItems == ProductResolve(op, <<>>, items, 1)
  IN IF Len(resolvedItems) = 0 THEN Thrown("Expected at least one item.")
     ELSE Returned(create_calc(calcProduct(resolvedItems[1][2], Tail(resolvedItems))))

multiply(items) == multiplyOrDivide(<<"*">>, items)

divide(items) == multiplyOrDivide(<<"/">>, items)

\* a handleItem of resolveCalcSums that keeps a calc operand as it is
CalcSumsHandleItem_KeepCalc(resolvedItems, item) ==
  IF Falsy(item) THEN resolvedItems
  ELSE IF IsScalar(item) THEN Append(resolvedItems, value(item))
  ELSE Append(resolvedItems, item)

\* handleItem of resolveCalcSums
CalcSumsHandleItem(resolvedItems, item) ==
  IF Falsy(item) THEN resolvedItems
  ELSE IF IsScalar(item) THEN Append(resolvedItems, value(item))
  ELSE IF Kind(item) = "calc" THEN Append(resolvedItems, Kids(item)[3])
  ELSE Append(resolvedItems, item)

RECURSIVE CalcSumsResolve(_, _, _)
CalcSumsResolve(resolvedItems, items, i) ==
  IF i > Len(items) THEN resolvedItems
  ELSE CalcSumsResolve(CalcSumsHandleItem(resolvedItems, items[i]), items, i + 1)

resolveCalcSums(items) == CalcSumsResolve(<<>>, items, 1)

min(items) ==
  LET resolvedItems == resolveCalcSums(items)
  IN IF Len(resolvedItems) = 0 THEN Thrown("Expected at least one item.")
     ELSE Returned(create_min(resolvedItems))

max(items) ==
  LET resolvedItems == resolveCalcSums(items)
  IN IF Len(resolvedItems) = 0 THEN Thrown("Expected at least one item.")
     ELSE Returned(create_max(resolvedItems))

\* an anyExprToCalcSum without the calc branch: a calc node is passed through
anyExprToCalcSum_KeepCalc(item) ==
  IF IsScalar(item) THEN value(item) ELSE item

anyExprToCalcSum(item) ==
  IF IsScalar(item) THEN value(item)
  ELSE IF Kind(item) = "calc" THEN Kids(item)[3]
  ELSE item

\* the string "none" and the keyword node clamp( ) puts in its place
NoneString == Str(<<"n", "o", "n", "e">>)
NoneKeyword == Tok("keyword", <<"n", "o", "n", "e">>)

\* a clamp whose max slot is decided by the test on its min argument
clamp_MaxFollowsMin(minArg, preferred, maxArg) ==
  create_clamp(IF minArg = NoneString THEN NoneKeyword ELSE anyExprToCalcSum(minArg),
               anyExprToCalcSum(preferred),
               IF minArg = NoneString THEN NoneKeyword ELSE anyExprToCalcSum(maxArg))

clamp(minArg, preferred, maxArg) ==
  create_clamp(IF minArg = NoneString THEN NoneKeyword ELSE anyExprToCalcSum(minArg),
               anyExprToCalcSum(preferred),
               IF maxArg = NoneString THEN NoneKeyword ELSE anyExprToCalcSum(maxArg))

exp(item) ==
  IF IsScalar(item) THEN create_exp(value(item))
  ELSE create_exp(anyExprToCalcSum(item))

pow(base, exponent) ==
  create_pow(anyExprToCalcSum(base), anyExprToCalcSum(exponent))

\* round testing !value instead of value == null
round_FalsyValue(strategy, val, interval) ==
  IF Falsy(val) THEN Thrown("Expected at least one item.")
  ELSE Returned(create_round(strategy,
                             anyExprToCalcSum(val),
                             IF ~Falsy(interval) THEN anyExprToCalcSum(interval)
                                                 ELSE Undefined))

round(strategy, val, interval) ==
  IF Nullish(val) THEN Thrown("Expected at least one item.")
  ELSE Returned(create_round(strategy,
                             anyExprToCalcSum(val),
                             IF ~Falsy(interval) THEN anyExprToCalcSum(interval)
                                                 ELSE Undefined))

(***************************************************************************)
(* The state machine.  A behaviour evaluates one client expression bottom   *)
(* up: the low-level constructors build an operand in reg, then one entry  *)
(* point is called with arguments drawn from the scalars, null and reg.    *)
(* fn, args, result and error record the last call: its name, its          *)
(* arguments, the node it returned (Null when it threw) and the message it *)
(* threw ("" when it returned).                                            *)
(***************************************************************************)
NoError == ""

Leaf(k) == calcValue_number(Num(k))

SumOps == {<<"+">>, <<"-">>}
ProductOps == {<<"*">>, <<"/">>}

OpSeqs(ops) == UNION {[1..n -> ops] : n \in 0..MaxPairs}

\* the pairs [ops[1], Leaf(2)], [ops[2], Leaf(3)], ...
LeafPairs(ops) == [i \in 1..Len(ops) |-> Pair(ops[i], Leaf(i + 1))]

RECURSIVE WrapDepth(_)
WrapDepth(node) ==
  IF Tag(node) = "node" /\ Kind(node) = "calc" THEN 1 + WrapDepth(Kids(node)[3]) ELSE 0

\* the calc nodes of a tree, at any depth
RECURSIVE CalcCount(_), CalcCountAll(_)
CalcCount(v) ==
  (IF Tag(v) = "node" /\ Kind(v) = "calc" THEN 1 ELSE 0) + CalcCountAll(Kids(v))
CalcCountAll(vs) ==
  IF vs = <<>> THEN 0 ELSE CalcCount(Head(vs)) + CalcCountAll(Tail(vs))

\* the operands of a pair list
Operands(pairs) == [i \in 1..Len(pairs) |-> pairs[i][2]]

\* the scalars and operands a call may be given
Scalars == {Num(0), Num(7), Str(<<>>), Str(<<"1", "p", "x">>)}
Items == {Null, reg} \cup Scalars
ItemLists == UNION {[1..n -> Items] : n \in 0..MaxItems}

Strategies ==
  {Null, Str(<<"n", "e", "a", "r", "e", "s", "t">>), Str(<<"u", "p">>),
   Str(<<"d", "o", "w", "n">>), Str(<<"t", "o", "-", "z", "e", "r", "o">>)}

Alphabet == {"+", "-", "1", ".", "e", "E", "%", "p"}
Strings == UNION {[1..n -> Alphabet] : n \in 0..MaxStrLen}
Numbers == {0, 7, 12, 0 - 3}

Init ==
  /\ reg = Null
  /\ fn = "none"
  /\ args = <<>>
  /\ result = Null
  /\ error = NoError
  /\ stack = <<>>
  /\ output = <<>>
  /\ pops = 0
  /\ heap = <<>>
  /\ composed = 0

\* the steps after which the operand is still being built
Building == {"none", "create.clacSum", "create.calcProduct", "create.calc"}

\* a constructor call: the node it returns becomes the operand register
Construct(name, inputs, node) ==
  /\ reg' = node
  /\ fn' = name
  /\ args' = inputs
  /\ result' = node
  /\ error' = NoError
  /\ UNCHANGED <<stack, output, pops, heap, composed>>

\* a builder call that writes what it returns into the operand it was given
Call_InPlace(name, inputs, outcome) ==
  /\ fn' = name
  /\ args' = inputs
  /\ result' = Ret(outcome)
  /\ error' = Err(outcome)
  /\ reg' = IF Ok(outcome) /\ (\E i \in 1..Len(inputs) : inputs[i] = reg)
              THEN Ret(outcome) ELSE reg
  /\ UNCHANGED <<stack, output, pops, heap, composed>>

\* a builder call: records its outcome, leaves the operand register alone
Call(name, inputs, outcome) ==
  /\ fn' = name
  /\ args' = inputs
  /\ result' = Ret(outcome)
  /\ error' = Err(outcome)
  /\ UNCHANGED <<reg, stack, output, pops, heap, composed>>

ClacSum ==
  /\ fn \in Building
  /\ \E ops \in OpSeqs(SumOps) :
       Construct("create.clacSum", <<Leaf(1)>> \o Operands(LeafPairs(ops)),
                 clacSum(Leaf(1), LeafPairs(ops)))

\* the first factor of a product: the number 1 or, a calc node being a
\* CalcValue, the register when it holds calc( ) around a single value
FirstFactors ==
  {Leaf(1)} \cup
    (IF Tag(reg) = "node" /\ Kind(reg) = "calc" /\ Tag(Kids(reg)[3]) = "leaf"
       THEN {reg} ELSE {})

CalcProduct ==
  /\ fn \in Building
  /\ \E first \in FirstFactors, ops \in OpSeqs(ProductOps) :
       Construct("create.calcProduct", <<first>> \o Operands(LeafPairs(ops)),
                 calcProduct(first, LeafPairs(ops)))

Calc ==
  /\ fn \in Building
  /\ IsNode(reg)
  /\ CalcCount(reg) < MaxWrap
  /\ Construct("create.calc", <<reg>>, create_calc(reg))

Add ==
  /\ fn \in Building
  /\ \E items \in ItemLists : Call("add", items, add(items))

Substract ==
  /\ fn \in Building
  /\ \E items \in ItemLists : Call("substract", items, substract(items))

Multiply ==
  /\ fn \in Building
  /\ \E items \in ItemLists : Call("multiply", items, multiply(items))

Divide ==
  /\ fn \in Building
  /\ \E items \in ItemLists : Call("divide", items, divide(items))

Min ==
  /\ fn \in Building
  /\ \E items \in ItemLists : Call("min", items, min(items))

Max ==
  /\ fn \in Building
  /\ \E items \in ItemLists : Call("max", items, max(items))

Round ==
  /\ fn \in Building
  /\ \E strategy \in Strategies, val \in Items \cup {Undefined},
        interval \in Items \cup {Undefined} :
       Call("round", <<strategy, val, interval>>, round(strategy, val, interval))

\* the arguments of clamp, exp and pow: a scalar or the operand register
Expressions == Scalars \cup (IF IsNode(reg) THEN {reg} ELSE {})

Clamp ==
  /\ fn \in Building
  /\ \E minArg \in Expressions \cup {NoneString},
        preferred \in Expressions \cup {NoneString},
        maxArg \in Expressions \cup {NoneString} :
       Call("clamp", <<minArg, preferred, maxArg>>,
            Returned(clamp(minArg, preferred, maxArg)))

Exp ==
  /\ fn \in Building
  /\ \E item \in Expressions : Call("exp", <<item>>, Returned(exp(item)))

Pow ==
  /\ fn \in Building
  /\ \E base \in Expressions, exponent \in Expressions :
       Call("pow", <<base, exponent>>, Returned(pow(base, exponent)))

ValueString ==
  /\ fn \in Building
  /\ \E s \in Strings : Call("value", <<Str(s)>>, Returned(value(Str(s))))

ValueNumber ==
  /\ fn \in Building
  /\ \E n \in Numbers : Call("value", <<Num(n)>>, Returned(value(Num(n))))

\* value() alone, over every string of the alphabet up to MaxStrLen
NextValue ==
  \/ ValueString
  \/ ValueNumber

SpecValue == Init /\ [][NextValue]_vars

\* the trees of exactly n values, and the sequences of trees of n values in
\* all: nulls, tokens "a" and "b", arrays and nodes, empty ones included
Containers(fs) == {Arr(f) : f \in fs} \cup {Node("node", f) : f \in fs}
Prepended(ts, fs) == {<<v>> \o f : v \in ts, f \in fs}
RECURSIVE Trees(_), Forests(_)
Trees(n) ==
  IF n = 1
    THEN {Null, Tok("token", <<"a">>), Tok("token", <<"b">>), Arr(<<>>), Node("node", <<>>)}
    ELSE Containers(Forests(n - 1))
Forests(n) ==
  IF n = 0 THEN {<<>>}
  ELSE UNION {Prepended(Trees(k), Forests(n - k)) : k \in 1..n}

\* the nodes serialize( ) is called on: those of at most size values
Roots(size) ==
  {Tok("token", <<"a">>), Tok("token", <<"b">>)}
    \cup {Node("node", f) : f \in UNION {Forests(n) : n \in 0..(size - 1)}}

\* serialize(node) up to the while loop: lines 27 and 28
SerializeCall ==
  /\ fn \in Building
  /\ \E node \in Roots(MaxTreeSize) :
       /\ fn' = "serialize"
       /\ args' = <<node>>
       /\ stack' = <<node>>
       /\ output' = <<>>
       /\ pops' = 0
       /\ UNCHANGED <<reg, result, error, heap, composed>>

\* one iteration of the while loop; pops counts the calls of stack.pop()
SerializeStep ==
  /\ fn = "serialize"
  /\ Len(stack) > 0
  /\ stack' = SerializeIteration(stack, output)[1]
  /\ output' = SerializeIteration(stack, output)[2]
  /\ pops' = pops + 1
  /\ UNCHANGED <<reg, fn, args, result, error, heap, composed>>

\* the loop exit and return output
SerializeReturn ==
  /\ fn = "serialize"
  /\ Len(stack) = 0
  /\ fn' = "serialize.return"
  /\ result' = Str(output)
  /\ UNCHANGED <<reg, args, error, stack, output, pops, heap, composed>>

\* serialize(node) called on the operand register
SerializeRegister ==
  /\ fn \in Building
  /\ IsNode(reg)
  /\ fn' = "serialize"
  /\ args' = <<reg>>
  /\ stack' = <<reg>>
  /\ output' = <<>>
  /\ pops' = 0
  /\ UNCHANGED <<reg, result, error, heap, composed>>

Next ==
  \/ ClacSum
  \/ CalcProduct
  \/ Calc
  \/ Add
  \/ Substract
  \/ Multiply
  \/ Divide
  \/ Min
  \/ Max
  \/ Round
  \/ Clamp
  \/ Exp
  \/ Pow
  \/ SerializeRegister
  \/ SerializeStep
  \/ SerializeReturn

Spec == Init /\ [][Next]_vars

NextSerialize ==
  \/ SerializeCall
  \/ SerializeStep
  \/ SerializeReturn

SpecSerialize == Init /\ [][NextSerialize]_vars

\* serialize( ) is one synchronous call: once entered, its loop keeps
\* iterating and its return statement is executed when the loop is left
SpecSerializeFair ==
  SpecSerialize /\ WF_vars(SerializeStep) /\ WF_vars(SerializeReturn)

(***************************************************************************)
(* Object identity.  JavaScript nodes are objects and the builder passes   *)
(* references to them; heap is the sequence of the node objects allocated  *)
(* so far and a node's identity is its index.  An object is                *)
(* <<kind, operators, children>>: the identities of its child nodes in     *)
(* order and, for a chain, the operators of its trailing pairs.  Tokens    *)
(* and arrays are allocated afresh by every constructor call and are left  *)
(* out.                                                                    *)
(***************************************************************************)
\* most node objects on the heap
MaxObjects == 5

Obj(kind, ops, kids) == <<kind, ops, kids>>
ObjKind(h, id) == h[id][1]
ObjOps(h, id) == h[id][2]
ObjKids(h, id) == h[id][3]

\* a reference to the node object id
Ref(id) == <<"ref", "", <<>>, <<>>, id>>

\* create.calcValue.number: a new leaf object
HeapValue(h, kind) == <<Append(h, Obj(kind, <<>>, <<>>)), Len(h) + 1>>

\* create.clacSum on references: first itself when there are no products
HeapClacSum(h, first, products) ==
  IF Len(products) = 0 THEN <<h, first>>
  ELSE <<Append(h, Obj("calc-sum",
                       [i \in 1..Len(products) |-> products[i][1]],
                       <<first>> \o [i \in 1..Len(products) |-> products[i][2]])),
         Len(h) + 1>>

\* create.calc on a reference
HeapCalc(h, sum) == <<Append(h, Obj("calc", <<>>, <<sum>>)), Len(h) + 1>>

\* handleItem of addOrSubstract for a node operand: the references pushed
RECURSIVE HeapSumHandleNode(_, _, _, _)
HeapSumHandleNode(h, op, resolvedItems, id) ==
  IF ObjKind(h, id) = "calc-sum"
    THEN LET isFirst == Len(resolvedItems) = 0
         IN Append(resolvedItems, Pair(op, ObjKids(h, id)[1])) \o
            [i \in 1..Len(ObjOps(h, id)) |->
               Pair(MergedOp(op, isFirst, ObjOps(h, id)[i]), ObjKids(h, id)[i + 1])]
  ELSE IF ObjKind(h, id) = "calc"
    THEN HeapSumHandleNode(h, op, resolvedItems, ObjKids(h, id)[1])
  ELSE Append(resolvedItems, Pair(op, id))

\* for (const item of items) handleItem(item): a scalar allocates value(item)
RECURSIVE HeapSumResolve(_, _, _, _, _)
HeapSumResolve(h, op, resolvedItems, items, i) ==
  IF i > Len(items) THEN <<h, resolvedItems>>
  ELSE IF Falsy(items[i]) THEN HeapSumResolve(h, op, resolvedItems, items, i + 1)
  ELSE IF IsScalar(items[i])
    THEN HeapSumResolve(HeapValue(h, Kind(value(items[i])))[1], op,
                        Append(resolvedItems,
                               Pair(op, HeapValue(h, Kind(value(items[i])))[2])),
                        items, i + 1)
  ELSE HeapSumResolve(h, op, HeapSumHandleNode(h, op, resolvedItems, NumOf(items[i])),
                      items, i + 1)

\* addOrSubstract on references: <<heap, reference returned, error>>
HeapAddOrSubstract(h, op, items) ==
  LET r == HeapSumResolve(h, op, <<>>, items, 1)
  IN IF Len(r[2]) = 0 THEN <<r[1], Null, "Expected at least one item.">>
     ELSE LET s == HeapClacSum(r[1], r[2][1][2], Tail(r[2]))
              c == HeapCalc(s[1], s[2])
          IN <<c[1], Ref(c[2]), NoError>>

\* the node objects allocated so far
Objects == 1..Len(heap)
\* the nodes that are no child of any node
Free ==
  {id \in Objects : \A p \in Objects : \A k \in 1..Len(heap[p][3]) : heap[p][3][k] # id}

HeapStep(name, inputs, h, ref, err) ==
  /\ Len(h) <= MaxObjects
  /\ heap' = h
  /\ fn' = name
  /\ args' = inputs
  /\ result' = ref
  /\ error' = err
  /\ UNCHANGED <<reg, stack, output, pops, composed>>

\* const n = create.calcValue.number(..)
HeapNumber ==
  /\ Len(heap) < MaxObjects
  /\ HeapStep("heap.number", <<>>, HeapValue(heap, "number")[1],
              Ref(HeapValue(heap, "number")[2]), NoError)

\* create.clacSum(first, [op, product]) on nodes that have no parent yet
HeapClacSumCall ==
  \E first \in Free :
    \/ LET s == HeapClacSum(heap, first, <<>>)
       IN HeapStep("heap.clacSum", <<Ref(first)>>, s[1], Ref(s[2]), NoError)
    \/ \E op \in SumOps, product \in Free \ {first} :
         LET s == HeapClacSum(heap, first, <<Pair(op, product)>>)
         IN HeapStep("heap.clacSum", <<Ref(first), Ref(product)>>, s[1], Ref(s[2]), NoError)

\* create.calc(sum) on a node that has no parent yet
HeapCalcCall ==
  \E sum \in Free :
    LET c == HeapCalc(heap, sum)
    IN HeapStep("heap.calc", <<Ref(sum)>>, c[1], Ref(c[2]), NoError)

\* the argument lists of a builder call: null, a scalar, distinct root nodes
HeapItems == {Null, Num(7)} \cup {Ref(id) : id \in Free}
HeapItemLists ==
  {items \in UNION {[1..n -> HeapItems] : n \in 0..MaxItems} :
     \A i, j \in 1..Len(items) :
       (i # j /\ Tag(items[i]) = "ref") => items[i] # items[j]}

HeapAdd ==
  \E items \in HeapItemLists :
    LET r == HeapAddOrSubstract(heap, <<"+">>, items)
    IN HeapStep("heap.add", items, r[1], r[2], r[3])

HeapSubstract ==
  \E items \in HeapItemLists :
    LET r == HeapAddOrSubstract(heap, <<"-">>, items)
    IN HeapStep("heap.substract", items, r[1], r[2], r[3])

NextOwnership ==
  \/ HeapNumber
  \/ HeapClacSumCall
  \/ HeapCalcCall
  \/ HeapAdd
  \/ HeapSubstract

SpecOwnership == Init /\ [][NextOwnership]_vars

(***************************************************************************)
(* Composition.  const x = add(..); const y = min(x, ..); ...: the node a  *)
(* builder call returns is the operand of the next builder call, starting  *)
(* from scalars only.  composed counts the builder calls made so far.      *)
(***************************************************************************)
\* most builder calls composed into one expression
MaxCompose == 2

ComposeScalars == {Num(7)}
ComposeItems == ComposeScalars \cup (IF IsNode(reg) THEN {reg} ELSE {})
ComposeLists == UNION {[1..n -> ComposeItems] : n \in 1..MaxItems}
ComposeStrategies == {Null, Str(<<"u", "p">>)}

\* a builder call whose returned node is kept as the next operand
Compose(name, inputs, outcome) ==
  /\ Ok(outcome)
  /\ fn' = name
  /\ args' = inputs
  /\ result' = Ret(outcome)
  /\ error' = NoError
  /\ reg' = Ret(outcome)
  /\ composed' = composed + 1
  /\ UNCHANGED <<stack, output, pops, heap>>

ComposeAdd ==
  /\ composed < MaxCompose
  /\ \E items \in ComposeLists : Compose("add", items, add(items))

ComposeSubstract ==
  /\ composed < MaxCompose
  /\ \E items \in ComposeLists : Compose("substract", items, substract(items))

ComposeMultiply ==
  /\ composed < MaxCompose
  /\ \E items \in ComposeLists : Compose("multiply", items, multiply(items))

ComposeDivide ==
  /\ composed < MaxCompose
  /\ \E items \in ComposeLists : Compose("divide", items, divide(items))

ComposeMin ==
  /\ composed < MaxCompose
  /\ \E items \in ComposeLists : Compose("min", items, min(items))

ComposeMax ==
  /\ composed < MaxCompose
  /\ \E items \in ComposeLists : Compose("max", items, max(items))

ComposeClamp ==
  /\ composed < MaxCompose
  /\ \E minArg \in ComposeItems \cup {NoneString},
        preferred \in ComposeItems \cup {NoneString},
        maxArg \in ComposeItems \cup {NoneString} :
       Compose("clamp", <<minArg, preferred, maxArg>>,
               Returned(clamp(minArg, preferred, maxArg)))

ComposeExp ==
  /\ composed < MaxCompose
  /\ \E item \in ComposeItems : Compose("exp", <<item>>, Returned(exp(item)))

ComposePow ==
  /\ composed < MaxCompose
  /\ \E base \in ComposeItems, exponent \in ComposeItems :
       Compose("pow", <<base, exponent>>, Returned(pow(base, exponent)))

ComposeRound ==
  /\ composed < MaxCompose
  /\ \E strategy \in ComposeStrategies, val \in ComposeItems,
        interval \in ComposeItems \cup {Undefined} :
       Compose("round", <<strategy, val, interval>>, round(strategy, val, interval))

NextCompose ==
  \/ ComposeAdd
  \/ ComposeSubstract
  \/ ComposeMultiply
  \/ ComposeDivide
  \/ ComposeMin
  \/ ComposeMax
  \/ ComposeClamp
  \/ ComposeExp
  \/ ComposePow
  \/ ComposeRound

SpecCompose == Init /\ [][NextCompose]_vars

(***************************************************************************)
(* Reading a call back: its operands and its output chain.                 *)
(***************************************************************************)
IsKind(v, kind) == Tag(v) = "node" /\ Kind(v) = kind

\* an operand with its calc( ) wrappers removed
RECURSIVE Unwrapped(_)
Unwrapped(item) == IF IsKind(item, "calc") THEN Unwrapped(Kids(item)[3]) ELSE item

\* the <<operator token, operand>> entries of a chain node of the given kind,
\* the first with an empty token; any other node is a chain of one operand
ChainOf(inner, kind) ==
  IF IsKind(inner, kind)
    THEN <<<<(<<>>), Kids(inner)[1]>>>> \o
         [k \in 1..Len(RestOf(inner)) |->
            <<StrOf(Kids(RestOf(inner)[k])[1]), Kids(RestOf(inner)[k])[2]>>]
    ELSE <<<<(<<>>), inner>>>>

\* the chain inside the calc( ) a call returned
OutChain(kind) == ChainOf(Kids(result)[3], kind)

\* how many operands an item puts into a chain of the given kind: none when
\* it is left out, its whole chain when it is merged, one otherwise
Contribution(item, kind) ==
  IF Falsy(item) THEN 0
  ELSE IF IsKind(Unwrapped(item), kind) THEN 1 + Len(RestOf(Unwrapped(item)))
  ELSE 1

\* how many operands the items before position i put into the output
RECURSIVE Offset(_, _, _)
Offset(items, i, kind) ==
  IF i <= 1 THEN 0
  ELSE Offset(items, i - 1, kind) + Contribution(items[i - 1], kind)

PlusTok == <<" ", "+", " ">>
MinusTok == <<" ", "-", " ">>
Opposite(tok) == IF tok = PlusTok THEN MinusTok ELSE PlusTok

SumCallReturned == fn \in {"add", "substract"} /\ error = NoError
ProductCallReturned == fn \in {"multiply", "divide"} /\ error = NoError
OuterTok == IF fn = "add" THEN PlusTok
            ELSE IF fn = "substract" THEN MinusTok
            ELSE IF fn = "multiply" THEN <<"*">>
            ELSE <<"/">>

\* the sum 1 + 2 - 3 and the product 1*2/3 built by the constructors
Sum123 == clacSum(Leaf(1), <<Pair(<<"+">>, Leaf(2)), Pair(<<"-">>, Leaf(3))>>)
Product123 == calcProduct(Leaf(1), <<Pair(<<"*">>, Leaf(2)), Pair(<<"/">>, Leaf(3))>>)

(***************************************************************************)
(* C1.  Under substract, a calc-sum operand (given directly or inside      *)
(* calc( )) that is not the first to contribute to the output has its      *)
(* first term appended with " - " and every later term with the opposite   *)
(* of its own sign.                                                        *)
(***************************************************************************)
C1_SignFlip ==
  (fn = "substract" /\ error = NoError) =>
    \A i \in 1..Len(args) :
      LET s == Unwrapped(args[i])
          off == Offset(args, i, "calc-sum")
          out == OutChain("calc-sum")
      IN (IsKind(s, "calc-sum") /\ off > 0) =>
           /\ out[off + 1] = <<MinusTok, Kids(s)[1]>>
           /\ \A k \in 1..Len(RestOf(s)) :
                out[off + 1 + k] =
                  <<Opposite(StrOf(Kids(RestOf(s)[k])[1])), Kids(RestOf(s)[k])[2]>>

\* substract(7, sum(1 + 2 - 3)) returned "calc(7 - 1 - 2 + 3)"
C1_Witness ==
  /\ fn = "substract"
  /\ args = <<Num(7), Sum123>>
  /\ serialize(result) =
       <<"c", "a", "l", "c", "(", "7", " ", "-", " ", "1", " ", "-", " ", "2",
         " ", "+", " ", "3", ")">>

(***************************************************************************)
(* C2.  Under add at any position, and under substract when it is the      *)
(* first to contribute, a calc-sum operand keeps the sign of each of its   *)
(* later terms; its first term takes the outer sign, or none when it opens *)
(* the output.                                                             *)
(***************************************************************************)
C2_SignPreserved ==
  SumCallReturned =>
    \A i \in 1..Len(args) :
      LET s == Unwrapped(args[i])
          off == Offset(args, i, "calc-sum")
          out == OutChain("calc-sum")
      IN (IsKind(s, "calc-sum") /\ (fn = "add" \/ off = 0)) =>
           /\ out[off + 1] = <<IF off = 0 THEN <<>> ELSE OuterTok, Kids(s)[1]>>
           /\ \A k \in 1..Len(RestOf(s)) :
                out[off + 1 + k] =
                  <<StrOf(Kids(RestOf(s)[k])[1]), Kids(RestOf(s)[k])[2]>>

\* substract(null, sum(1 + 2 - 3)) returned "calc(1 + 2 - 3)"
C2_Witness ==
  /\ fn = "substract"
  /\ args = <<Null, Sum123>>
  /\ serialize(result) =
       <<"c", "a", "l", "c", "(", "1", " ", "+", " ", "2", " ", "-", " ", "3", ")">>

(***************************************************************************)
(* C4.  Under multiply and divide, a calc-sum operand (given directly or   *)
(* inside calc( )) at any position becomes exactly one operand of the      *)
(* product: a group node around that sum, serialized in parentheses.       *)
(***************************************************************************)
C4_Parenthesized ==
  ProductCallReturned =>
    LET out == OutChain("calc-product")
    IN /\ Len(out) = Offset(args, Len(args) + 1, "calc-product")
       /\ \A i \in 1..Len(args) :
            LET s == Unwrapped(args[i])
                off == Offset(args, i, "calc-product")
                g == out[off + 1][2]
            IN IsKind(s, "calc-sum") =>
                 /\ IsKind(g, "group")
                 /\ Kids(g)[2] = s
                 /\ serialize(g) = <<"(">> \o serialize(s) \o <<")">>

\* multiply(7, sum(1 + 2 - 3)) returned "calc(7*(1 + 2 - 3))"
C4_Witness ==
  /\ fn = "multiply"
  /\ args = <<Num(7), Sum123>>
  /\ serialize(result) =
       <<"c", "a", "l", "c", "(", "7", "*", "(", "1", " ", "+", " ", "2", " ",
         "-", " ", "3", ")", ")">>

(***************************************************************************)
(* C5.  Under multiply and divide, a calc-product operand (given directly  *)
(* or inside calc( )) is merged with its first value carrying the outer    *)
(* operator and every later value keeping its own operator, at every       *)
(* position.                                                               *)
(***************************************************************************)
C5_InnerOpsKept ==
  ProductCallReturned =>
    \A i \in 1..Len(args) :
      LET s == Unwrapped(args[i])
          off == Offset(args, i, "calc-product")
          out == OutChain("calc-product")
      IN IsKind(s, "calc-product") =>
           /\ out[off + 1] = <<IF off = 0 THEN <<>> ELSE OuterTok, Kids(s)[1]>>
           /\ \A k \in 1..Len(RestOf(s)) :
                out[off + 1 + k] =
                  <<StrOf(Kids(RestOf(s)[k])[1]), Kids(RestOf(s)[k])[2]>>

\* divide(7, product(1*2/3)) returned "calc(7/1*2/3)"
C5_Witness ==
  /\ fn = "divide"
  /\ args = <<Num(7), Product123>>
  /\ serialize(result) =
       <<"c", "a", "l", "c", "(", "7", "/", "1", "*", "2", "/", "3", ")">>

(***************************************************************************)
(* C3.  add(add(a, b), c) and add(calc(add(a, b)), c) have the outcome of  *)
(* add(a, b, c), and multiply(multiply(a, b), c) that of                   *)
(* multiply(a, b, c), for all non-null a, b, c: both raise or both return  *)
(* nodes with the same serialization.  The state holds the inner call      *)
(* f(a, b); the outer call is applied to what it returned, and is never    *)
(* made when it threw.                                                     *)
(***************************************************************************)
SameOutcome(x, y) ==
  /\ Ok(x) = Ok(y)
  /\ Ok(x) => serialize(Ret(x)) = serialize(Ret(y))

C3_Flattening ==
  (fn \in {"add", "multiply"} /\ Len(args) = 2 /\ Null \notin {args[1], args[2]}) =>
    \A c \in Items \ {Null} :
      LET inner == IF error = NoError THEN Returned(result) ELSE Thrown(error)
          flat == IF fn = "add" THEN add(args \o <<c>>) ELSE multiply(args \o <<c>>)
          nested == IF ~Ok(inner) THEN inner
                    ELSE IF fn = "add" THEN add(<<result, c>>)
                    ELSE multiply(<<result, c>>)
          nestedCalc == IF ~Ok(inner) THEN inner
                        ELSE add(<<create_calc(result), c>>)
      IN /\ SameOutcome(nested, flat)
         /\ fn = "add" => SameOutcome(nestedCalc, flat)

(***************************************************************************)
(* C6.  In add, substract, multiply and divide only null items are left    *)
(* out: every number and every string puts exactly one operand, value(item)*)
(* with the outer operator, into the output, so the output has one operand *)
(* per scalar item plus the operands of the node items.                    *)
(***************************************************************************)
ChainKind == IF fn \in {"add", "substract"} THEN "calc-sum" ELSE "calc-product"

\* the operands an item is to contribute when only null is left out
Expected(item, kind) ==
  IF item = Null THEN 0
  ELSE IF IsScalar(item) THEN 1
  ELSE Contribution(item, kind)

RECURSIVE ExpectedOffset(_, _, _)
ExpectedOffset(items, i, kind) ==
  IF i <= 1 THEN 0
  ELSE ExpectedOffset(items, i - 1, kind) + Expected(items[i - 1], kind)

C6_OnlyNullDropped ==
  fn \in {"add", "substract", "multiply", "divide"} =>
    LET total == ExpectedOffset(args, Len(args) + 1, ChainKind)
    IN IF error # NoError THEN total = 0
       ELSE LET out == OutChain(ChainKind)
            IN /\ Len(out) = total
               /\ \A i \in 1..Len(args) :
                    LET off == ExpectedOffset(args, i, ChainKind)
                    IN IsScalar(args[i]) =>
                         out[off + 1] =
                           <<IF off = 0 THEN <<>> ELSE OuterTok, value(args[i])>>

(***************************************************************************)
(* C7.  add, substract, multiply, divide, min and max raise "Expected at   *)
(* least one item." exactly when every item is null (or there is none),    *)
(* and then return no node; otherwise they return a node and raise nothing.*)
(***************************************************************************)
C7_EmptyInputError ==
  fn \in {"add", "substract", "multiply", "divide", "min", "max"} =>
    IF \A i \in 1..Len(args) : args[i] = Null
      THEN error = "Expected at least one item." /\ result = Null
      ELSE error = NoError /\ IsNode(result)

(***************************************************************************)
(* C8.  round raises exactly when its value argument is null or undefined, *)
(* whatever the strategy and the interval; for every other value,          *)
(* the number 0 and the empty string included, it returns a round node.    *)
(***************************************************************************)
C8_RoundMissingValue ==
  fn = "round" =>
    IF Nullish(args[2])
      THEN error # NoError /\ result = Null
      ELSE error = NoError /\ IsKind(result, "round")

\* round(null, 0) returned "round(0)"
C8_Witness ==
  /\ fn = "round"
  /\ args = <<Null, Num(0), Undefined>>
  /\ error = NoError
  /\ serialize(result) = <<"r", "o", "u", "n", "d", "(", "0", ")">>

(***************************************************************************)
(* The grammar [+-]?(digits | digits? '.' digits)([eE][+-]?digits)? as a   *)
(* predicate on whole strings.                                             *)
(***************************************************************************)
AllDigits(s, a, b) == \A k \in a..b : IsDigit(s[k])

\* s[a..b] is digits, or digits? '.' digits
IsMantissa(s, a, b) ==
  \/ a <= b /\ AllDigits(s, a, b)
  \/ \E d \in a..(b - 1) : s[d] = "." /\ AllDigits(s, a, d - 1) /\ AllDigits(s, d + 1, b)

\* s[a..b] is [eE][+-]?digits
IsExponent(s, a, b) ==
  /\ a < b
  /\ s[a] \in {"e", "E"}
  /\ LET k == IF s[a + 1] \in {"+", "-"} THEN a + 2 ELSE a + 1
     IN k <= b /\ AllDigits(s, k, b)

InGrammar(s) ==
  LET a == IF Len(s) >= 1 /\ s[1] \in {"+", "-"} THEN 2 ELSE 1
  IN \E m \in a..Len(s) :
       /\ IsMantissa(s, a, m)
       /\ (m = Len(s) \/ IsExponent(s, m + 1, Len(s)))

\* the lengths of the prefixes of s that match the grammar
GrammarPrefixes(s) == {n \in 1..Len(s) : InGrammar(SubSeq(s, 1, n))}

\* the length of the numeric span: the longest such prefix
NumericSpan(s) == CHOOSE n \in GrammarPrefixes(s) : \A m \in GrammarPrefixes(s) : m <= n

(***************************************************************************)
(* C9.  value(s) of a string that matches the grammar in its entirety is   *)
(* the number node whose token is s; value(n) of a number is a number node.*)
(***************************************************************************)
C9_NumberClassification ==
  fn = "value" =>
    /\ Tag(args[1]) = "number" => Tag(result) = "leaf" /\ Kind(result) = "number"
    /\ (Tag(args[1]) = "string" /\ InGrammar(StrOf(args[1]))) =>
         result = Tok("number", StrOf(args[1]))

(***************************************************************************)
(* C10.  value(s) of a string made of its numeric span N and a non-empty   *)
(* suffix is the percentage node of N when the suffix is "%", and          *)
(* otherwise the dimension node with number token N and the suffix as its  *)
(* unit.                                                                   *)
(***************************************************************************)
C10_SuffixClassification ==
  (fn = "value" /\ Tag(args[1]) = "string") =>
    LET s == StrOf(args[1])
    IN (GrammarPrefixes(s) # {} /\ NumericSpan(s) < Len(s)) =>
         LET N == SubSeq(s, 1, NumericSpan(s))
             suffix == SubSeq(s, NumericSpan(s) + 1, Len(s))
         IN IF suffix = <<"%">>
              THEN result = calcValue_percentage(Str(N))
              ELSE result = calcValue_dimension(Str(N), suffix)

(***************************************************************************)
(* C11.  value( ) never raises: it returns a node for every input, and a   *)
(* string in which no prefix matches the numeric grammar comes back as a   *)
(* raw node whose single token is the whole string.                        *)
(***************************************************************************)
C11_RawFallback ==
  fn = "value" =>
    /\ error = NoError
    /\ IsNode(result)
    /\ (Tag(args[1]) = "string" /\ GrammarPrefixes(StrOf(args[1])) = {}) =>
         result = Tok("raw", StrOf(args[1]))

\* "-.e1": a sign and a dot with no digit after it is not a number
C11_Witness ==
  /\ fn = "value"
  /\ args = <<Str(<<"-", ".", "e", "1">>)>>
  /\ error = NoError
  /\ result = Tok("raw", <<"-", ".", "e", "1">>)

(***************************************************************************)
(* C12.  Serializing the leaf value( ) makes from a string gives back      *)
(* exactly that string, whether it was classified number, percentage,      *)
(* dimension or raw.                                                       *)
(***************************************************************************)
C12_LeafRoundTrip ==
  (fn = "value" /\ Tag(args[1]) = "string") =>
    serialize(result) = StrOf(args[1])

\* "1e1%" is the percentage of "1e1" and is put together again
C12_Witness ==
  /\ fn = "value"
  /\ args = <<Str(<<"1", "e", "1", "%">>)>>
  /\ IsKind(result, "percentage")
  /\ serialize(result) = <<"1", "e", "1", "%">>

\* the depth-first, left-to-right concatenation of the string tokens of a
\* value: nothing for null, the token of a leaf, the children in order else
RECURSIVE Flatten(_), FlattenAll(_)
Flatten(v) ==
  IF Tag(v) \in {"null", "undefined"} THEN <<>>
  ELSE IF Tag(v) = "leaf" THEN StrOf(v)
  ELSE FlattenAll(Kids(v))
FlattenAll(vs) ==
  IF vs = <<>> THEN <<>> ELSE Flatten(Head(vs)) \o FlattenAll(Tail(vs))

\* how many values a tree holds (nodes, arrays and nulls), and a sequence of trees
RECURSIVE Size(_), SizeAll(_)
Size(v) == 1 + SizeAll(Kids(v))
SizeAll(vs) ==
  IF vs = <<>> THEN 0 ELSE Size(Head(vs)) + SizeAll(Tail(vs))

(***************************************************************************)
(* C13.  What the stack-based serializer returns for a tree is the         *)
(* depth-first, left-to-right concatenation of its string tokens, nulls    *)
(* and empty arrays adding nothing.                                        *)
(***************************************************************************)
C13_DepthFirstOrder ==
  fn = "serialize.return" =>
    /\ StrOf(result) = Flatten(args[1])
    /\ StrOf(result) = serialize(args[1])

\* a node holding an empty array, a null and two tokens serializes to "ba"
C13_Witness ==
  /\ fn = "serialize.return"
  /\ args = <<Node("node", <<Arr(<<>>), Null, Tok("token", <<"b">>), Tok("token", <<"a">>)>>)>>
  /\ result = Str(<<"b", "a">>)

(***************************************************************************)
(* C14.  serialize( ) terminates on every finite tree without failing:     *)
(* every iteration pops one value, each node, array and null of the tree   *)
(* is popped exactly once (what is popped and what is still below the      *)
(* stack entries always add up to the tree), and the call then returns.    *)
(***************************************************************************)
C14_Terminates ==
  /\ [](fn = "serialize" => pops + SizeAll(stack) = Size(args[1]))
  /\ [](fn = "serialize.return" =>
          pops = Size(args[1]) /\ Tag(result) = "string" /\ error = NoError)
  /\ (fn = "serialize" ~> fn = "serialize.return")

\* five pops for the five values of a nested tree, a null among them
C14_Witness ==
  /\ fn = "serialize.return"
  /\ args = <<Node("node", <<Arr(<<Null, Tok("token", <<"a">>)>>), Tok("token", <<"b">>)>>)>>
  /\ pops = 5
  /\ stack = <<>>

\* the operand an item of min or max is to become: a scalar is parsed, a
\* calc node gives its inner sum, any other node stands for itself
OperandOf(item) ==
  IF IsScalar(item) THEN value(item)
  ELSE IF IsKind(item, "calc") THEN Kids(item)[3]
  ELSE item

\* one operand per item that is not null, in argument order
RECURSIVE OperandsOf(_)
OperandsOf(items) ==
  IF items = <<>> THEN <<>>
  ELSE IF Head(items) = Null THEN OperandsOf(Tail(items))
  ELSE <<OperandOf(Head(items))>> \o OperandsOf(Tail(items))

\* the serializations of the operands with "," between them
RECURSIVE JoinComma(_)
JoinComma(operands) ==
  IF Len(operands) = 1 THEN serialize(operands[1])
  ELSE serialize(Head(operands)) \o <<",">> \o JoinComma(Tail(operands))

(***************************************************************************)
(* C15.  min and max have one operand per non-null item, in argument       *)
(* order, the number 0 included: a scalar parsed by value( ), a calc node  *)
(* replaced by its inner sum, any other node kept; the result serializes   *)
(* as the function name, "(", the operands joined by "," and ")".          *)
(***************************************************************************)
C15_MinMaxOperands ==
  fn \in {"min", "max"} =>
    LET operands == OperandsOf(args)
        name == IF fn = "min" THEN <<"m", "i", "n">> ELSE <<"m", "a", "x">>
    IN IF operands = <<>> THEN error # NoError
       ELSE /\ error = NoError
            /\ IsKind(result, fn)
            /\ serialize(result) = name \o <<"(">> \o JoinComma(operands) \o <<")">>

(***************************************************************************)
(* C16.  clamp returns a clamp node of three slots.  Its min slot is the   *)
(* keyword node none exactly when the min argument is the string "none",   *)
(* and so is its max slot for the max argument, each on its own; any other *)
(* argument, the number 0 included, is resolved like an expression (a      *)
(* scalar parsed, a calc unwrapped).  The preferred slot is always the     *)
(* resolved expression and never the keyword.                              *)
(***************************************************************************)
C16_ClampSlots ==
  fn = "clamp" =>
    /\ error = NoError
    /\ IsKind(result, "clamp")
    /\ Len(Kids(result)) = 8
    /\ Kids(result)[3] = IF args[1] = NoneString THEN NoneKeyword ELSE OperandOf(args[1])
    /\ Kids(result)[5] = OperandOf(args[2])
    /\ Kids(result)[5] # NoneKeyword
    /\ Kids(result)[7] = IF args[3] = NoneString THEN NoneKeyword ELSE OperandOf(args[3])
    /\ serialize(result) =
         <<"c", "l", "a", "m", "p", "(">> \o serialize(Kids(result)[3]) \o <<",">>
           \o serialize(Kids(result)[5]) \o <<",">> \o serialize(Kids(result)[7]) \o <<")">>

\* clamp("none", 0, calc(1 + 2 - 3)) is "clamp(none,0,1 + 2 - 3)"
C16_Witness ==
  /\ fn = "clamp"
  /\ args = <<NoneString, Num(0), create_calc(Sum123)>>
  /\ Kids(result)[3] = NoneKeyword
  /\ Kids(result)[5] = Tok("number", <<"0">>)
  /\ Kids(result)[7] = Sum123

\* the items with every calc( ) wrapper around them removed
Bare(items) == [i \in 1..Len(items) |-> Unwrapped(items[i])]

\* the calc nodes inside the items that reach the output
RECURSIVE CalcInside(_)
CalcInside(items) ==
  IF items = <<>> THEN 0
  ELSE (IF Falsy(Head(items)) THEN 0 ELSE CalcCount(Head(items))) + CalcInside(Tail(items))

\* what the call just made gives on other items
Recall(items) ==
  IF fn = "add" THEN add(items)
  ELSE IF fn = "substract" THEN substract(items)
  ELSE IF fn = "multiply" THEN multiply(items)
  ELSE divide(items)

RECURSIVE NoEmptyChain(_)
NoEmptyChain(v) ==
  /\ (IsKind(v, "calc-sum") \/ IsKind(v, "calc-product")) => Len(RestOf(v)) >= 1
  /\ \A i \in 1..Len(Kids(v)) : NoEmptyChain(Kids(v)[i])

\* the items of a call that reach its output
Kept(items) == {i \in 1..Len(items) : ~Falsy(items[i])}

(***************************************************************************)
(* C18.  clacSum and calcProduct given no trailing pair return their first *)
(* operand itself, so no calc-sum or calc-product node, built by the       *)
(* constructors or by add, substract, multiply and divide, has an empty    *)
(* pair list; a builder call whose only operand is a single value returns  *)
(* calc( ) directly around that value.                                     *)
(***************************************************************************)
C18_SingleOperandCollapse ==
  /\ (fn \in {"create.clacSum", "create.calcProduct"} /\ Len(args) = 1) =>
       result = args[1]
  /\ NoEmptyChain(result)
  /\ (fn \in {"add", "substract", "multiply", "divide"} /\ Cardinality(Kept(args)) = 1) =>
       \A i \in Kept(args) :
         Tag(OperandOf(Unwrapped(args[i]))) = "leaf" =>
           result = create_calc(OperandOf(Unwrapped(args[i])))

\* add(7) is calc( ) around the number node 7
C18_Witness ==
  /\ fn = "add"
  /\ args = <<Num(7)>>
  /\ Kids(result)[3] = Tok("number", <<"7">>)
  /\ serialize(result) = <<"c", "a", "l", "c", "(", "7", ")">>

TokensOf(n) ==
  Tag(n) = "node" =>
    CASE Kind(n) = "calc-sum" ->
           \A k \in 1..Len(RestOf(n)) :
             Kids(RestOf(n)[k])[1] \in {Tok("token", PlusTok), Tok("token", MinusTok)}
      [] Kind(n) = "calc-product" ->
           \A k \in 1..Len(RestOf(n)) :
             Kids(RestOf(n)[k])[1] \in {Tok("token", <<"*">>), Tok("token", <<"/">>)}
      [] Kind(n) \in {"min", "max"} ->
           \A k \in 2..Len(Kids(Kids(n)[3])) :
             Kids(Kids(Kids(n)[3])[k])[1] = Tok("token", <<",">>)
      [] Kind(n) = "clamp" ->
           Kids(n)[4] = Tok("token", <<",">>) /\ Kids(n)[6] = Tok("token", <<",">>)
      [] Kind(n) = "pow" -> Kids(n)[4] = Tok("token", <<",">>)
      [] Kind(n) = "round" ->
           /\ Tag(Kids(n)[3]) = "array" => Kids(Kids(n)[3])[2] = Tok("token", <<",">>)
           /\ Tag(Kids(n)[5]) = "array" => Kids(Kids(n)[5])[1] = Tok("token", <<",">>)
      [] OTHER -> TRUE

\* ... and so have those of every node below it
RECURSIVE TokensBelow(_)
TokensBelow(v) == TokensOf(v) /\ \A i \in 1..Len(Kids(v)) : TokensBelow(Kids(v)[i])

\* the README example add("10px", multiply(2, "5px"))
ReadmeExample ==
  Ret(add(<<Str(<<"1", "0", "p", "x">>),
            Ret(multiply(<<Num(2), Str(<<"5", "p", "x">>)>>))>>))

RoundText(strategy, val, hasInterval, interval) ==
  <<"r", "o", "u", "n", "d", "(">>
    \o (IF strategy = Null THEN <<>> ELSE StrOf(strategy) \o <<",">>)
    \o serialize(OperandOf(val))
    \o (IF hasInterval THEN <<",">> \o serialize(OperandOf(interval)) ELSE <<>>)
    \o <<")">>

(***************************************************************************)
(* C21.  In round(strategy, value, interval) the strategy and the interval *)
(* are optional independently of each other: the output has the strategy   *)
(* and "," exactly when the strategy is not null, and "," and the resolved *)
(* interval exactly when an interval is supplied, the number 0 included.   *)
(***************************************************************************)
C21_RoundOptionalParts ==
  (fn = "round" /\ error = NoError) =>
    serialize(result) = RoundText(args[1], args[2], ~Nullish(args[3]), args[3])

ComposingExample ==
  Ret(add(<<Str(<<"1", "0", "p", "x">>),
            Ret(multiply(<<Num(2), Str(<<"5", "v", "w">>)>>)),
            clamp(Num(0), Str(<<"2", "0", "%">>), Str(<<"5", "0", "p", "x">>))>>))

(***************************************************************************)
(* C23.  In add and substract an operand that is a node other than a       *)
(* calc-sum or a calc (a product, a value, a function node) becomes        *)
(* exactly one term of the output: the node itself, with no group around   *)
(* it, carrying the outer sign unless it opens the output.                 *)
(***************************************************************************)
C23_PassThrough ==
  /\ SumCallReturned =>
       /\ Len(OutChain("calc-sum")) = Offset(args, Len(args) + 1, "calc-sum")
       /\ \A i \in 1..Len(args) :
            (IsNode(args[i]) /\ ~IsKind(args[i], "calc-sum") /\ ~IsKind(args[i], "calc")) =>
              LET off == Offset(args, i, "calc-sum")
              IN /\ Offset(args, i + 1, "calc-sum") = off + 1
                 /\ OutChain("calc-sum")[off + 1] =
                      <<IF off = 0 THEN <<>> ELSE OuterTok, args[i]>>
  /\ serialize(ComposingExample) =
       <<"c", "a", "l", "c", "(", "1", "0", "p", "x", " ", "+", " ", "2", "*", "5", "v", "w",
         " ", "+", " ", "c", "l", "a", "m", "p", "(", "0", ",", "2", "0", "%", ",",
         "5", "0", "p", "x", ")", ")">>

\* substract(7, 1*2/3) is "calc(7 - 1*2/3)"
C23_Witness ==
  /\ fn = "substract"
  /\ args = <<Num(7), Product123>>
  /\ OutChain("calc-sum")[2] = <<MinusTok, Product123>>
  /\ serialize(result) =
       <<"c", "a", "l", "c", "(", "7", " ", "-", " ", "1", "*", "2", "/", "3", ")">>


\* the group nodes of a tree, at any depth
RECURSIVE GroupCount(_), GroupCountAll(_)
GroupCount(v) ==
  (IF IsKind(v, "group") THEN 1 ELSE 0) + GroupCountAll(Kids(v))
GroupCountAll(vs) ==
  IF vs = <<>> THEN 0 ELSE GroupCount(Head(vs)) + GroupCountAll(Tail(vs))

\* the operands of a call that are calc-sums, given directly or inside calc( )
SumOperands == {i \in 1..Len(args) : IsKind(Unwrapped(args[i]), "calc-sum")}

(***************************************************************************)
(* C24.  multiply and divide insert a group only around a calc-sum operand *)
(* that stands next to a '*' or '/' in the output: every group of the      *)
(* output wraps a calc-sum operand, and an output that holds a group has   *)
(* at least two operands, so that a sole calc-sum operand is not           *)
(* parenthesized.  add and substract return no group that was not in       *)
(* their operands.                                                         *)
(***************************************************************************)
C24_GroupOnlyWhereRequired ==
  /\ ProductCallReturned =>
       /\ GroupCount(result) = GroupCountAll(args) + Cardinality(SumOperands)
       /\ SumOperands # {} => Len(OutChain("calc-product")) >= 2
  /\ SumCallReturned => GroupCount(result) = GroupCountAll(args)


\* the places where a node object is a child: <<parent, position>>
ParentsOf(id) ==
  {pk \in Objects \X (1..MaxItems + MaxPairs + 2) :
     pk[2] <= Len(heap[pk[1]][3]) /\ heap[pk[1]][3][pk[2]] = id}

(***************************************************************************)
(* C25.  Every node object is a child of at most one parent node, in every *)
(* state reached by constructor calls on parentless nodes and add and      *)
(* substract calls on distinct root nodes.                                 *)
(***************************************************************************)
C25_ExclusiveOwnership ==
  \A id \in Objects : Cardinality(ParentsOf(id)) <= 1


\* the role a value keeps when the product it stands in becomes a divisor
Inverse(tok) == IF tok = <<"*">> THEN <<"/">> ELSE <<"*">>

(***************************************************************************)
(* C26.  divide(x, p) with a calc-product operand p placed after the first *)
(* output operand denotes x divided by the whole of p: the first value of  *)
(* p and every value after a '*' inside p is a divisor of the output, and  *)
(* every value after a '/' inside p is a multiplier.  Under multiply every *)
(* value of p keeps its operator.                                          *)
(***************************************************************************)
C26_ProductMeaning ==
  ProductCallReturned =>
    \A i \in 1..Len(args) :
      LET p == Unwrapped(args[i])
          off == Offset(args, i, "calc-product")
          out == OutChain("calc-product")
      IN (IsKind(p, "calc-product") /\ off > 0) =>
           /\ out[off + 1][1] = OuterTok
           /\ \A k \in 1..Len(RestOf(p)) :
                out[off + 1 + k][1] =
                  IF fn = "divide" THEN Inverse(StrOf(Kids(RestOf(p)[k])[1]))
                  ELSE StrOf(Kids(RestOf(p)[k])[1])


\* the AST grammar: a calc-value is a value node, a group or calc around a
\* sum, or a function node; a product chains calc-values; a sum chains
\* products
ValueKinds == {"number", "dimension", "percentage", "keyword", "raw"}
FunctionKinds == {"min", "max", "clamp", "exp", "pow", "round", "var"}

RECURSIVE IsCalcValue(_), IsCalcProduct(_), IsCalcSum(_)
IsCalcValue(v) ==
  \/ IsNode(v) /\ Kind(v) \in ValueKinds
  \/ IsKind(v, "group") /\ IsCalcSum(Kids(v)[2])
  \/ IsKind(v, "calc") /\ IsCalcSum(Kids(v)[3])
  \/ Tag(v) = "node" /\ Kind(v) \in FunctionKinds
IsCalcProduct(v) ==
  IF IsKind(v, "calc-product")
    THEN /\ IsCalcValue(Kids(v)[1])
         /\ \A k \in 1..Len(RestOf(v)) : IsCalcValue(Kids(RestOf(v)[k])[2])
    ELSE IsCalcValue(v)
IsCalcSum(v) ==
  IF IsKind(v, "calc-sum")
    THEN /\ IsCalcProduct(Kids(v)[1])
         /\ \A k \in 1..Len(RestOf(v)) : IsCalcProduct(Kids(RestOf(v)[k])[2])
    ELSE IsCalcProduct(v)

(***************************************************************************)
(* C27.  When every node operand of add, substract, multiply or divide is  *)
(* well-formed, the node returned is calc( ) around a well-formed sum: no  *)
(* term of a calc-sum is a calc-sum, no operand of a calc-product is a     *)
(* calc-sum or a calc-product.                                             *)
(***************************************************************************)
C27_WellFormedOutput ==
  ((SumCallReturned \/ ProductCallReturned)
     /\ \A i \in 1..Len(args) : IsNode(args[i]) => IsCalcSum(args[i])) =>
    /\ IsKind(result, "calc")
    /\ IsCalcSum(Kids(result)[3])

\* multiply(calc(1*2/3), 7) returned calc( ) around the product 1*2/3*7
C27_Witness ==
  /\ fn = "multiply"
  /\ args = <<create_calc(Product123), Num(7)>>
  /\ IsCalcSum(args[1])
  /\ Kids(result)[3] =
       calcProduct(Leaf(1), <<Pair(<<"*">>, Leaf(2)), Pair(<<"/">>, Leaf(3)),
                              Pair(<<"*">>, value(Num(7)))>>)


Contributed(item, kind) ==
  IF Falsy(item) THEN <<>>
  ELSE IF IsScalar(item) THEN <<value(item)>>
  ELSE IF kind = "list" THEN <<OperandOf(item)>>
  ELSE LET u == Unwrapped(item)
       IN IF IsKind(u, kind)
            THEN [k \in 1..Len(ChainOf(u, kind)) |-> ChainOf(u, kind)[k][2]]
          ELSE IF kind = "calc-product" /\ IsKind(u, "calc-sum")
            THEN <<calcValue_group(u)>>
          ELSE <<u>>

\* the contributions of the items, concatenated in argument order
RECURSIVE ContributedAll(_, _)
ContributedAll(items, kind) ==
  IF items = <<>> THEN <<>>
  ELSE Contributed(Head(items), kind) \o ContributedAll(Tail(items), kind)

\* the operand nodes of the chain a call returned, and of a min or max node
ChainOperands(kind) == [k \in 1..Len(OutChain(kind)) |-> OutChain(kind)[k][2]]
ListOperands(node) ==
  LET list == Kids(Kids(node)[3])
  IN [k \in 1..Len(list) |-> IF k = 1 THEN list[1] ELSE Kids(list[k])[2]]

(***************************************************************************)
(* C29.  The operands of the output of add, substract, multiply, divide,   *)
(* min and max are the contributions of the items in argument order: the   *)
(* operands of a merged calc-sum or calc-product stand together, in their  *)
(* own order, between those of the neighbouring items; nothing is          *)
(* reordered and nothing occurs twice.                                     *)
(***************************************************************************)
C29_OrderPreserved ==
  /\ SumCallReturned => ChainOperands("calc-sum") = ContributedAll(args, "calc-sum")
  /\ ProductCallReturned =>
       ChainOperands("calc-product") = ContributedAll(args, "calc-product")
  /\ (fn \in {"min", "max"} /\ error = NoError) =>
       ListOperands(result) = ContributedAll(args, "list")

\* substract("1px", sum(1 + 2 - 3)) returned the operands 1px, 1, 2, 3
C29_Witness ==
  /\ fn = "substract"
  /\ args = <<Str(<<"1", "p", "x">>), Sum123>>
  /\ ChainOperands("calc-sum") = <<value(Str(<<"1", "p", "x">>)), Leaf(1), Leaf(2), Leaf(3)>>
  /\ serialize(result) =
       <<"c", "a", "l", "c", "(", "1", "p", "x", " ", "-", " ", "1", " ", "-", " ",
         "2", " ", "+", " ", "3", ")">>


\* the stack entries from the top of the stack to its bottom
TopDown(stk) == [k \in 1..Len(stk) |-> stk[Len(stk) + 1 - k]]

\* the entry the next iteration pops
Top == stack[Len(stack)]

(***************************************************************************)
(* C30.  At every iteration of the work loop of serialize the output so    *)
(* far, followed by the tokens of the stack entries read in order from the *)
(* top of the stack to its bottom, is the serialization of the root; and   *)
(* an iteration that pops an array or a node with children pushes them in  *)
(* reverse index order, leaving its leftmost child on top of the stack.    *)
(***************************************************************************)
C30_LoopInvariant ==
  /\ [](fn = "serialize" => output \o FlattenAll(TopDown(stack)) = serialize(args[1]))
  /\ [][(fn = "serialize" /\ Len(stack) > 0 /\ Tag(Top) \in {"array", "node"}
           /\ Len(Kids(Top)) > 0) =>
          /\ Len(stack') = Len(stack) - 1 + Len(Kids(Top))
          /\ TopDown(stack') =
               Kids(Top) \o TopDown(SubSeq(stack, 1, Len(stack) - 1))]_vars

\* half-way through "ab": a is written, the array holding b and a null is
\* the only stack entry
C30_Witness ==
  /\ fn = "serialize"
  /\ args = <<Node("node", <<Tok("token", <<"a">>), Arr(<<Tok("token", <<"b">>), Null>>)>>)>>
  /\ output = <<"a">>
  /\ stack = <<Arr(<<Tok("token", <<"b">>), Null>>)>>

====
